---- MODULE Spec2Model ----
(***************************************************************************)
(* Braille auto-correct and suggestion system.                             *)
(*                                                                         *)
(* Strings are sequences of one-character strings.  A Braille pattern is a *)
(* Python tuple of dots, modelled as a sequence of integers, so that tuple *)
(* equality (==) and set equality (set(p1) == set(p2)) stay distinct.      *)
(*                                                                         *)
(* Units.  Every distance of distanceCalculator.py is a multiple of 0.5;   *)
(* the model holds distances in half units (1.0 is 2, 6.5 is 13).  Every   *)
(* boost of dictionaryManager.py is held in hundredths (0.5 is 50).        *)
(***************************************************************************)
EXTENDS Integers, Sequences, FiniteSets, TLC

VARIABLES dictionary, word_frequency, user_corrections, word_patterns_cache, ret

vars == <<dictionary, word_frequency, user_corrections, word_patterns_cache, ret>>

(***************************************************************************)
(* Generic helpers standing for Python built-ins.                          *)
(***************************************************************************)
Range(s) == {s[i] : i \in 1..Len(s)}

Min2(a, b) == IF a <= b THEN a ELSE b

Max2(a, b) == IF a >= b THEN a ELSE b

\* min(xs) of a non-empty sequence of numbers
MinOfSeq(xs) == CHOOSE m \in Range(xs) : \A x \in Range(xs) : m <= x

\* value of key k in a dict d, or dflt (dict.get(k, dflt))
DictGet(d, k, dflt) == IF k \in DOMAIN d THEN d[k] ELSE dflt

\* d[k] = v
DictSet(d, k, v) == [x \in (DOMAIN d) \cup {k} |-> IF x = k THEN v ELSE d[x]]

\* del d[k]
DictDel(d, k) == [x \in (DOMAIN d) \ {k} |-> d[x]]

\* d.update(e)
DictUpdate(d, e) == [x \in (DOMAIN d) \cup (DOMAIN e) |-> IF x \in DOMAIN e THEN e[x] ELSE d[x]]

EmptyDict == [x \in {} |-> 0]

\* all sequences over S of length 0..n
RECURSIVE SeqsUpTo(_, _)
SeqsUpTo(S, n) ==
    IF n = 0 THEN {<<>>}
    ELSE LET shorter == SeqsUpTo(S, n - 1)
         IN  shorter \cup {Append(s, x) : s \in {t \in shorter : Len(t) = n - 1}, x \in S}

\* all orders in which the elements of a finite set can be listed
RECURSIVE Orderings(_)
Orderings(S) ==
    IF S = {} THEN {<<>>}
    ELSE UNION {{<<x>> \o rest : rest \in Orderings(S \ {x})} : x \in S}

\* n copies of c
RECURSIVE Repeat(_, _)
Repeat(c, n) == IF n = 0 THEN <<>> ELSE <<c>> \o Repeat(c, n - 1)

(***************************************************************************)
(* Python str methods on character sequences.                              *)
(***************************************************************************)
UpperToLower ==
    [c \in {"A","B","C","D","E","F","G","H","I","J","K","L","M",
            "N","O","P","Q","R","S","T","U","V","W","X","Y","Z"} |->
        CASE c = "A" -> "a" [] c = "B" -> "b" [] c = "C" -> "c" [] c = "D" -> "d"
          [] c = "E" -> "e" [] c = "F" -> "f" [] c = "G" -> "g" [] c = "H" -> "h"
          [] c = "I" -> "i" [] c = "J" -> "j" [] c = "K" -> "k" [] c = "L" -> "l"
          [] c = "M" -> "m" [] c = "N" -> "n" [] c = "O" -> "o" [] c = "P" -> "p"
          [] c = "Q" -> "q" [] c = "R" -> "r" [] c = "S" -> "s" [] c = "T" -> "t"
          [] c = "U" -> "u" [] c = "V" -> "v" [] c = "W" -> "w" [] c = "X" -> "x"
          [] c = "Y" -> "y" [] c = "Z" -> "z"]

Whitespace == {" ", "\t", "\n"}

\* str.lower()
Lower(s) == [i \in 1..Len(s) |-> IF s[i] \in DOMAIN UpperToLower THEN UpperToLower[s[i]] ELSE s[i]]

\* str.strip()
RECURSIVE Strip(_)
Strip(s) ==
    IF s = <<>> THEN s
    ELSE IF Head(s) \in Whitespace THEN Strip(Tail(s))
    ELSE IF s[Len(s)] \in Whitespace THEN Strip(SubSeq(s, 1, Len(s) - 1))
    ELSE s

\* str.split(): the maximal runs of non-whitespace characters, in order
RECURSIVE SplitFrom(_, _, _)
SplitFrom(s, i, cur) ==
    IF i > Len(s) THEN (IF cur = <<>> THEN <<>> ELSE <<cur>>)
    ELSE IF s[i] \in Whitespace
         THEN (IF cur = <<>> THEN <<>> ELSE <<cur>>) \o SplitFrom(s, i + 1, <<>>)
         ELSE SplitFrom(s, i + 1, Append(cur, s[i]))

Split(s) == SplitFrom(s, 1, <<>>)

\* sorted(xs) of a sequence of integers (duplicates kept)
RECURSIVE InsertSorted(_, _)
InsertSorted(x, s) ==
    IF s = <<>> THEN <<x>>
    ELSE IF x <= Head(s) THEN <<x>> \o s
    ELSE <<Head(s)>> \o InsertSorted(x, Tail(s))

RECURSIVE Sorted(_)
Sorted(xs) == IF xs = <<>> THEN <<>> ELSE InsertSorted(Head(xs), Sorted(Tail(xs)))

(***************************************************************************)
(* brailleConverter.py                                                     *)
(***************************************************************************)
key_to_dot ==
    [k \in {"d", "w", "q", "k", "o", "p"} |->
        CASE k = "d" -> 1 [] k = "w" -> 2 [] k = "q" -> 3
          [] k = "k" -> 4 [] k = "o" -> 5 [] k = "p" -> 6]

char_to_braille ==
    [c \in {"a","b","c","d","e","f","g","h","i","j","k","l","m",
            "n","o","p","q","r","s","t","u","v","w","x","y","z"," "} |->
        CASE c = "a" -> <<1>>          [] c = "b" -> <<1,2>>       [] c = "c" -> <<1,4>>
          [] c = "d" -> <<1,4,5>>      [] c = "e" -> <<1,5>>       [] c = "f" -> <<1,2,4>>
          [] c = "g" -> <<1,2,4,5>>    [] c = "h" -> <<1,2,5>>     [] c = "i" -> <<2,4>>
          [] c = "j" -> <<2,4,5>>      [] c = "k" -> <<1,3>>       [] c = "l" -> <<1,2,3>>
          [] c = "m" -> <<1,3,4>>      [] c = "n" -> <<1,3,4,5>>   [] c = "o" -> <<1,3,5>>
          [] c = "p" -> <<1,2,3,4>>    [] c = "q" -> <<1,2,3,4,5>> [] c = "r" -> <<1,2,3,5>>
          [] c = "s" -> <<2,3,4>>      [] c = "t" -> <<2,3,4,5>>   [] c = "u" -> <<1,3,6>>
          [] c = "v" -> <<1,2,3,6>>    [] c = "w" -> <<2,4,5,6>>   [] c = "x" -> <<1,3,4,6>>
          [] c = "y" -> <<1,3,4,5,6>>  [] c = "z" -> <<1,3,5,6>>   [] c = " " -> <<>>]

\* the dots of one chord: the mapped keys in input order
RECURSIVE ChordDots(_)
ChordDots(char_input) ==
    IF char_input = <<>> THEN <<>>
    ELSE (IF Head(char_input) \in DOMAIN key_to_dot
          THEN <<key_to_dot[Head(char_input)]>> ELSE <<>>) \o ChordDots(Tail(char_input))

qwerty_to_braille_pattern(qwerty_input) ==
    IF Strip(qwerty_input) = <<>> THEN <<>>
    ELSE LET char_inputs == Split(Lower(qwerty_input))
         IN  [i \in 1..Len(char_inputs) |-> Sorted(ChordDots(char_inputs[i]))]

text_to_braille_patterns(text) ==
    LET t == Lower(text)
    IN  [i \in 1..Len(t) |-> DictGet(char_to_braille, t[i], <<>>)]

validate_qwerty_input(qwerty_input) ==
    LET valid_keys == (DOMAIN key_to_dot) \cup {" "}
    IN  \A c \in Range(Lower(qwerty_input)) : c \in valid_keys

(***************************************************************************)
(* distanceCalculator.py (distances in half units)                         *)
(***************************************************************************)
ERROR_WEIGHTS ==
    [missing_dot |-> 2, extra_dot |-> 2, deletion |-> 4, insertion |-> 4, substitution |-> 3]

\* float('inf'): larger than every finite distance of the model
INF == 1000000

\* the penalty without the two positions it lets pass: length_diff * 0.5
length_penaltyFromFirst(length_diff) == length_diff

\* (length_diff - 2) * 0.5, in half units
length_penalty(length_diff) == length_diff - 2

\* pattern_distance that leaves out the cost of the extra dots
pattern_distanceMissingOnly(pattern1, pattern2) ==
    Cardinality(Range(pattern2) \ Range(pattern1)) * ERROR_WEIGHTS.missing_dot

pattern_distance(pattern1, pattern2) ==
    LET set1 == Range(pattern1)
        set2 == Range(pattern2)
        missing_cost == Cardinality(set2 \ set1) * ERROR_WEIGHTS.missing_dot
        extra_cost == Cardinality(set1 \ set2) * ERROR_WEIGHTS.extra_dot
    IN  missing_cost + extra_cost

RECURSIVE HammingSum(_, _, _)
HammingSum(patterns1, patterns2, i) ==
    IF i > Len(patterns1) THEN 0
    ELSE (IF patterns1[i] # patterns2[i]
          THEN pattern_distance(patterns1[i], patterns2[i]) ELSE 0)
         + HammingSum(patterns1, patterns2, i + 1)

hamming_distance_patterns(patterns1, patterns2) ==
    IF Len(patterns1) # Len(patterns2) THEN INF
    ELSE HammingSum(patterns1, patterns2, 1)

\* the edit distance with every substitution at the flat weight of 1.5
levenshtein_distance_patternsFlat(patterns1, patterns2) ==
    LET m == Len(patterns1)
        n == Len(patterns2)
        dp[i \in 0..m, j \in 0..n] ==
            IF j = 0 THEN i * ERROR_WEIGHTS.deletion
            ELSE IF i = 0 THEN j * ERROR_WEIGHTS.insertion
            ELSE IF patterns1[i] = patterns2[j] THEN dp[i - 1, j - 1]
            ELSE Min2(dp[i - 1, j] + ERROR_WEIGHTS.deletion,
                      Min2(dp[i, j - 1] + ERROR_WEIGHTS.insertion,
                           dp[i - 1, j - 1] + ERROR_WEIGHTS.substitution))
    IN  dp[m, n]

levenshtein_distance_patterns(patterns1, patterns2) ==
    LET m == Len(patterns1)
        n == Len(patterns2)
        dp[i \in 0..m, j \in 0..n] ==
            IF j = 0 THEN i * ERROR_WEIGHTS.deletion
            ELSE IF i = 0 THEN j * ERROR_WEIGHTS.insertion
            ELSE IF patterns1[i] = patterns2[j] THEN dp[i - 1, j - 1]
            ELSE LET raw == pattern_distance(patterns1[i], patterns2[j])
                     substitute_cost == IF raw = 0 THEN ERROR_WEIGHTS.substitution ELSE raw
                 IN  Min2(dp[i - 1, j] + ERROR_WEIGHTS.deletion,
                          Min2(dp[i, j - 1] + ERROR_WEIGHTS.insertion,
                               dp[i - 1, j - 1] + substitute_cost))
    IN  dp[m, n]

word_distance(word1_patterns, word2_patterns) ==
    LET len1 == Len(word1_patterns)
        len2 == Len(word2_patterns)
    IN  IF len1 = len2
        THEN hamming_distance_patterns(word1_patterns, word2_patterns)
        ELSE LET base_distance == levenshtein_distance_patterns(word1_patterns, word2_patterns)
                 length_diff == IF len1 >= len2 THEN len1 - len2 ELSE len2 - len1
             IN  IF length_diff > 2
                 THEN base_distance + length_penalty(length_diff)
                 ELSE base_distance

\* batch_distances that returns the distances in reverse candidate order
batch_distancesReversed(input_patterns, dictionary_patterns) ==
    [i \in 1..Len(dictionary_patterns) |->
        word_distance(input_patterns,
                      dictionary_patterns[Len(dictionary_patterns) + 1 - i])]

batch_distances(input_patterns, dictionary_patterns) ==
    [i \in 1..Len(dictionary_patterns) |->
        word_distance(input_patterns, dictionary_patterns[i])]

(***************************************************************************)
(* dictionaryManager.py                                                    *)
(*                                                                         *)
(* dictionary is the set of words; word_frequency, user_corrections and    *)
(* word_patterns_cache are Python dicts, held as functions whose domain is *)
(* the set of keys present.  ret records the last call: its name, its      *)
(* arguments, how it ended and what it returned.                           *)
(***************************************************************************)
FREQUENCY_SCALE == 100

\* 0.5, in hundredths
MAX_FREQUENCY_BOOST == 50

MAX_WORD_LENGTH == 50

NoValue == <<>>

Ret(op, args, status, value) == [op |-> op, args |-> args, status |-> status, value |-> value]

\* frequencies=None
NoFrequencies == [given |-> FALSE, list |-> <<>>]

Frequencies(list) == [given |-> TRUE, list |-> list]

\* _is_valid_word without the test of the characters
is_valid_wordAnyCharacter(word) == ~(word = <<>> \/ Len(word) > MAX_WORD_LENGTH)

is_valid_word(word) ==
    IF word = <<>> \/ Len(word) > MAX_WORD_LENGTH THEN FALSE
    ELSE \A c \in Range(Lower(word)) : c \in DOMAIN char_to_braille

\* the normalisation add_words, remove_word and add_user_correction apply
Normalize(word) == Strip(Lower(word))

\* `frequencies and i < len(frequencies)`, i counted from 0 over the words given
HasExplicitFrequency(frequencies, i) ==
    frequencies.given /\ frequencies.list # <<>> /\ i < Len(frequencies.list)

\* the loop body caching the patterns of the word as given, not as normalised
AddWordsStepCachesRaw(st, words, frequencies, i) ==
    LET word == Normalize(words[i + 1])
    IN  IF word # <<>> /\ is_valid_word(word)
        THEN [dictionary |-> st.dictionary \cup {word},
              word_frequency |->
                  IF HasExplicitFrequency(frequencies, i)
                  THEN DictSet(st.word_frequency, word, frequencies.list[i + 1])
                  ELSE DictSet(st.word_frequency, word,
                               Max2(1, DictGet(st.word_frequency, word, 0))),
              cache |-> DictSet(st.cache, word, text_to_braille_patterns(words[i + 1]))]
        ELSE st

\* the loop body setting 1 where no frequency is given, whatever was there
AddWordsStepResetsFrequency(st, words, frequencies, i) ==
    LET word == Normalize(words[i + 1])
    IN  IF word # <<>> /\ is_valid_word(word)
        THEN [dictionary |-> st.dictionary \cup {word},
              word_frequency |->
                  IF HasExplicitFrequency(frequencies, i)
                  THEN DictSet(st.word_frequency, word, frequencies.list[i + 1])
                  ELSE DictSet(st.word_frequency, word, 1),
              cache |-> DictSet(st.cache, word, text_to_braille_patterns(word))]
        ELSE st

\* one iteration of the loop of add_words; st holds the three fields it writes
AddWordsStep(st, words, frequencies, i) ==
    LET word == Normalize(words[i + 1])
    IN  IF word # <<>> /\ is_valid_word(word)
        THEN [dictionary |-> st.dictionary \cup {word},
              word_frequency |->
                  IF HasExplicitFrequency(frequencies, i)
                  THEN DictSet(st.word_frequency, word, frequencies.list[i + 1])
                  ELSE DictSet(st.word_frequency, word,
                               Max2(1, DictGet(st.word_frequency, word, 0))),
              cache |-> DictSet(st.cache, word, text_to_braille_patterns(word))]
        ELSE st

RECURSIVE AddWordsLoop(_, _, _, _)
AddWordsLoop(st, words, frequencies, i) ==
    IF i >= Len(words) THEN st
    ELSE AddWordsLoop(AddWordsStep(st, words, frequencies, i), words, frequencies, i + 1)

AddWordsResult(words, frequencies) ==
    AddWordsLoop([dictionary |-> dictionary, word_frequency |-> word_frequency,
                  cache |-> word_patterns_cache], words, frequencies, 0)

add_words(words, frequencies) ==
    \E st \in {AddWordsResult(words, frequencies)} :
        /\ dictionary' = st.dictionary
        /\ word_frequency' = st.word_frequency
        /\ word_patterns_cache' = st.cache
        /\ ret' = Ret("add_words", <<words, frequencies>>, "ok", NoValue)
        /\ UNCHANGED user_corrections

\* remove_word that forgets the cascade to the pattern cache
remove_wordKeepsCache(raw) ==
    LET word == Normalize(raw)
    IN  IF word \in dictionary
        THEN /\ dictionary' = dictionary \ {word}
             /\ word_frequency' = DictDel(word_frequency, word)
             /\ ret' = Ret("remove_word", <<raw>>, "ok", TRUE)
             /\ UNCHANGED <<word_patterns_cache, user_corrections>>
        ELSE /\ ret' = Ret("remove_word", <<raw>>, "ok", FALSE)
             /\ UNCHANGED <<dictionary, word_frequency, word_patterns_cache, user_corrections>>

remove_word(raw) ==
    LET word == Normalize(raw)
    IN  IF word \in dictionary
        THEN IF word \in DOMAIN word_frequency
             THEN /\ dictionary' = dictionary \ {word}
                  /\ word_frequency' = DictDel(word_frequency, word)
                  /\ word_patterns_cache' =
                        IF word \in DOMAIN word_patterns_cache
                        THEN DictDel(word_patterns_cache, word)
                        ELSE word_patterns_cache
                  /\ ret' = Ret("remove_word", <<raw>>, "ok", TRUE)
                  /\ UNCHANGED user_corrections
             ELSE \* del self.word_frequency[word] raises after the set was changed
                  /\ dictionary' = dictionary \ {word}
                  /\ ret' = Ret("remove_word", <<raw>>, "KeyError", NoValue)
                  /\ UNCHANGED <<word_frequency, word_patterns_cache, user_corrections>>
        ELSE /\ ret' = Ret("remove_word", <<raw>>, "ok", FALSE)
             /\ UNCHANGED <<dictionary, word_frequency, word_patterns_cache, user_corrections>>

\* the cache after get_word_patterns(raw)
CacheAfterGet(cache, raw) ==
    LET word == Lower(raw)
    IN  IF word \notin DOMAIN cache
        THEN DictSet(cache, word, text_to_braille_patterns(word))
        ELSE cache

get_word_patterns(raw) ==
    /\ word_patterns_cache' = CacheAfterGet(word_patterns_cache, raw)
    /\ ret' = Ret("get_word_patterns", <<raw>>, "ok", word_patterns_cache'[Lower(raw)])
    /\ UNCHANGED <<dictionary, word_frequency, user_corrections>>

\* add_user_correction that leaves out the membership test
add_user_correctionUnchecked(qwerty_input, raw) ==
    LET chosen_word == Normalize(raw)
    IN  /\ word_frequency' =
               DictSet(word_frequency, chosen_word,
                       DictGet(word_frequency, chosen_word, 0) + 1)
        /\ user_corrections' =
               LET inner == DictGet(user_corrections, qwerty_input, EmptyDict)
               IN  DictSet(user_corrections, qwerty_input,
                           DictSet(inner, chosen_word, DictGet(inner, chosen_word, 0) + 1))
        /\ ret' = Ret("add_user_correction", <<qwerty_input, raw>>, "ok", NoValue)
        /\ UNCHANGED <<dictionary, word_patterns_cache>>

add_user_correction(qwerty_input, raw) ==
    LET chosen_word == Normalize(raw)
    IN  IF chosen_word \in dictionary
        THEN /\ word_frequency' =
                    DictSet(word_frequency, chosen_word,
                            DictGet(word_frequency, chosen_word, 0) + 1)
             /\ user_corrections' =
                    LET inner == DictGet(user_corrections, qwerty_input, EmptyDict)
                    IN  DictSet(user_corrections, qwerty_input,
                                DictSet(inner, chosen_word, DictGet(inner, chosen_word, 0) + 1))
             /\ ret' = Ret("add_user_correction", <<qwerty_input, raw>>, "ok", NoValue)
             /\ UNCHANGED <<dictionary, word_patterns_cache>>
        ELSE /\ ret' = Ret("add_user_correction", <<qwerty_input, raw>>, "ok", NoValue)
             /\ UNCHANGED <<dictionary, word_frequency, word_patterns_cache, user_corrections>>

\* the personalized boost capped at 0.5 instead of 0.2
PersonalizedBoostWideCap(corrections, word, qwerty_input) ==
    LET inner == DictGet(corrections, qwerty_input, EmptyDict)
    IN  IF word \in DOMAIN inner THEN Min2(50, inner[word] * 5) ELSE 0

PersonalizedBoost(corrections, word, qwerty_input) ==
    LET inner == DictGet(corrections, qwerty_input, EmptyDict)
    IN  IF word \in DOMAIN inner THEN Min2(20, inner[word] * 5) ELSE 0

\* the frequency boost without its cap
FrequencyBoostUncapped(freqs, word) ==
    (DictGet(freqs, word, 0) * 100) \div FREQUENCY_SCALE

FrequencyBoost(freqs, word) ==
    LET frequency == DictGet(freqs, word, 0)
    IN  Min2(MAX_FREQUENCY_BOOST, (frequency * 100) \div FREQUENCY_SCALE)

get_personalized_boost(word, qwerty_input) ==
    /\ ret' = Ret("get_personalized_boost", <<word, qwerty_input>>, "ok",
                  PersonalizedBoost(user_corrections, word, qwerty_input))
    /\ UNCHANGED <<dictionary, word_frequency, word_patterns_cache, user_corrections>>

get_frequency_boost(word) ==
    /\ ret' = Ret("get_frequency_boost", <<word>>, "ok", FrequencyBoost(word_frequency, word))
    /\ UNCHANGED <<dictionary, word_frequency, word_patterns_cache, user_corrections>>

(***************************************************************************)
(* load_user_data.  A blob stands for what pickle.load finds in the file:  *)
(* readable is FALSE when open() or pickle.load() raises; corrections is   *)
(* the items of user_data['corrections'] in dict order, each inner value   *)
(* either a mapping or not; word_frequency is user_data['word_frequency'], *)
(* a mapping or not.  Every exception is caught and printed.               *)
(***************************************************************************)
\* the loop over user_data['corrections'].items(): stops at the first inner
\* value that has no .items()
RECURSIVE LoadCorrections(_, _, _)
LoadCorrections(acc, items, i) ==
    IF i > Len(items) THEN [corrections |-> acc, raised |-> FALSE]
    ELSE IF ~items[i].mapping THEN [corrections |-> acc, raised |-> TRUE]
    ELSE LoadCorrections(
            IF DOMAIN items[i].counts = {} THEN acc
            ELSE DictSet(acc, items[i].key, items[i].counts),
            items, i + 1)

load_user_data(blob) ==
    IF ~blob.readable
    THEN /\ ret' = Ret("load_user_data", <<blob>>, "error printed", NoValue)
         /\ UNCHANGED <<dictionary, word_frequency, word_patterns_cache, user_corrections>>
    ELSE LET loaded == IF blob.has_corrections
                       THEN LoadCorrections(EmptyDict, blob.corrections, 1)
                       ELSE [corrections |-> user_corrections, raised |-> FALSE]
         IN  /\ user_corrections' = loaded.corrections
             /\ IF loaded.raised
                THEN /\ ret' = Ret("load_user_data", <<blob>>, "error printed", NoValue)
                     /\ UNCHANGED word_frequency
                ELSE IF blob.has_word_frequency /\ ~blob.word_frequency.mapping
                THEN /\ ret' = Ret("load_user_data", <<blob>>, "error printed", NoValue)
                     /\ UNCHANGED word_frequency
                ELSE /\ word_frequency' =
                            IF blob.has_word_frequency
                            THEN DictUpdate(word_frequency, blob.word_frequency.counts)
                            ELSE word_frequency
                     /\ ret' = Ret("load_user_data", <<blob>>, "ok", NoValue)
             /\ UNCHANGED <<dictionary, word_patterns_cache>>

(***************************************************************************)
(* load_dictionary_from_file and save_dictionary_to_file.  A file is       *)
(* [readable, data]: readable is FALSE when open(), the decoding or the    *)
(* parser raises, which happens before add_words is called.  The data of a *)
(* text file is its lines, each ending in "\n"; of a JSON file, what       *)
(* json.load returns: a list of items, each a string or not, or an object  *)
(* with its keys and values in order, or some other value; of a CSV file,  *)
(* its rows of cells.  Every exception is caught and printed.              *)
(***************************************************************************)
\* the non-blank lines cut at every blank instead of trimmed
RECURSIVE TextFileWordsUnstripped(_)
TextFileWordsUnstripped(lines) ==
    IF lines = <<>> THEN <<>>
    ELSE (IF Strip(Head(lines)) # <<>> THEN Split(Head(lines)) ELSE <<>>)
         \o TextFileWordsUnstripped(Tail(lines))

\* [line.strip() for line in f if line.strip()]
RECURSIVE TextFileWords(_)
TextFileWords(lines) ==
    IF lines = <<>> THEN <<>>
    ELSE (IF Strip(Head(lines)) # <<>> THEN <<Strip(Head(lines))>> ELSE <<>>)
         \o TextFileWords(Tail(lines))

DigitValue ==
    [c \in {"0", "1", "2", "3", "4", "5", "6", "7", "8", "9"} |->
        CASE c = "0" -> 0 [] c = "1" -> 1 [] c = "2" -> 2 [] c = "3" -> 3 [] c = "4" -> 4
          [] c = "5" -> 5 [] c = "6" -> 6 [] c = "7" -> 7 [] c = "8" -> 8 [] c = "9" -> 9]

\* str.isdigit()
IsDigit(s) == s # <<>> /\ \A c \in Range(s) : c \in DOMAIN DigitValue

\* int(s) of a string of digits
RECURSIVE ParseInt(_)
ParseInt(s) ==
    IF s = <<>> THEN 0
    ELSE ParseInt(SubSeq(s, 1, Len(s) - 1)) * 10 + DigitValue[s[Len(s)]]

\* the words collected from the rows of a CSV file
RECURSIVE CsvWords(_)
CsvWords(rows) ==
    IF rows = <<>> THEN <<>>
    ELSE (IF Len(Head(rows)) >= 1 THEN <<Head(rows)[1]>> ELSE <<>>) \o CsvWords(Tail(rows))

\* the frequencies collected from the rows of a CSV file
RECURSIVE CsvFrequencies(_)
CsvFrequencies(rows) ==
    IF rows = <<>> THEN <<>>
    ELSE (IF Len(Head(rows)) >= 2 /\ IsDigit(Head(rows)[2])
          THEN <<ParseInt(Head(rows)[2])>> ELSE <<>>) \o CsvFrequencies(Tail(rows))

\* the index of the first item that is no string, or Len(items) + 1
RECURSIVE FirstNonString(_, _)
FirstNonString(items, i) ==
    IF i > Len(items) \/ ~items[i].is_str THEN i ELSE FirstNonString(items, i + 1)

\* add_words(data) of a JSON list: word.lower() raises AttributeError at the
\* first item that is no string, after the items before it were added
JsonListOutcome(items) ==
    LET stop == FirstNonString(items, 1)
        words == [i \in 1..(stop - 1) |-> items[i].text]
    IN  [st |-> AddWordsResult(words, NoFrequencies), raised |-> stop <= Len(items)]

LoadOutcome(format, file) ==
    LET before == [dictionary |-> dictionary, word_frequency |-> word_frequency,
                   cache |-> word_patterns_cache]
    IN  IF ~file.readable THEN [st |-> before, raised |-> TRUE]
        ELSE IF format = "text"
        THEN [st |-> AddWordsResult(TextFileWords(file.data), NoFrequencies), raised |-> FALSE]
        ELSE IF format = "json"
        THEN IF file.data.kind = "list" THEN JsonListOutcome(file.data.items)
             ELSE IF file.data.kind = "dict"
             THEN [st |-> AddWordsResult([i \in 1..Len(file.data.items) |->
                                              file.data.items[i].text],
                                         Frequencies(file.data.values)),
                   raised |-> FALSE]
             ELSE [st |-> before, raised |-> FALSE]
        ELSE IF format = "csv"
        THEN LET words == CsvWords(file.data)
                 frequencies == CsvFrequencies(file.data)
             IN  [st |-> IF frequencies # <<>> /\ Len(frequencies) = Len(words)
                         THEN AddWordsResult(words, Frequencies(frequencies))
                         ELSE AddWordsResult(words, NoFrequencies),
                  raised |-> FALSE]
        ELSE [st |-> before, raised |-> FALSE]

load_dictionary_from_file(format, file) ==
    \E outcome \in {LoadOutcome(format, file)} :
        /\ dictionary' = outcome.st.dictionary
        /\ word_frequency' = outcome.st.word_frequency
        /\ word_patterns_cache' = outcome.st.cache
        /\ ret' = Ret("load_dictionary_from_file", <<format, file>>,
                      IF outcome.raised THEN "error printed" ELSE "ok", NoValue)
        /\ UNCHANGED user_corrections

\* the characters of lexicon words in code-point order
CodePointOrder ==
    <<" ", "a", "b", "c", "d", "e", "f", "g", "h", "i", "j", "k", "l", "m",
      "n", "o", "p", "q", "r", "s", "t", "u", "v", "w", "x", "y", "z">>

CodePointRank(c) == CHOOSE i \in 1..Len(CodePointOrder) : CodePointOrder[i] = c

\* s <= t as Python compares str: by the first differing character, a prefix first
RECURSIVE StrLeq(_, _)
StrLeq(s, t) ==
    IF s = <<>> THEN TRUE
    ELSE IF t = <<>> THEN FALSE
    ELSE IF Head(s) = Head(t) THEN StrLeq(Tail(s), Tail(t))
    ELSE CodePointRank(Head(s)) < CodePointRank(Head(t))

\* sorted(words) of a set of str
RECURSIVE SortedWords(_)
SortedWords(words) ==
    IF words = {} THEN <<>>
    ELSE LET first == CHOOSE w \in words : \A x \in words : StrLeq(w, x)
         IN  <<first>> \o SortedWords(words \ {first})

\* the lines save_dictionary_to_file(format='text') writes
SavedTextLines(words) ==
    LET sorted == SortedWords(words)
    IN  [i \in 1..Len(sorted) |-> Append(sorted[i], "\n")]

\* a DictionaryManager just constructed
FreshManager == [dictionary |-> {}, word_frequency |-> EmptyDict, cache |-> EmptyDict]

\* save_dictionary_to_file(path, 'text'), then a new DictionaryManager and its
\* load_dictionary_from_file(path, 'text'), which becomes the manager in use
save_and_reload ==
    \E st \in {AddWordsLoop(FreshManager, TextFileWords(SavedTextLines(dictionary)),
                            NoFrequencies, 0)} :
        /\ dictionary' = st.dictionary
        /\ word_frequency' = st.word_frequency
        /\ word_patterns_cache' = st.cache
        /\ user_corrections' = EmptyDict
        /\ ret' = Ret("save_and_reload", <<"text">>, "ok", NoValue)

\* sum(corrections.values())
RECURSIVE SumValues(_)
SumValues(d) ==
    IF DOMAIN d = {} THEN 0
    ELSE LET k == CHOOSE x \in DOMAIN d : TRUE
         IN  d[k] + SumValues(DictDel(d, k))

\* optimize_storage that empties the pattern cache
optimize_storageClearsCache ==
    /\ word_patterns_cache' = EmptyDict
    /\ user_corrections' =
            [k \in {x \in DOMAIN user_corrections : SumValues(user_corrections[x]) # 1} |->
                user_corrections[k]]
    /\ ret' = Ret("optimize_storage", <<>>, "ok", NoValue)
    /\ UNCHANGED <<dictionary, word_frequency>>

\* optimize_storage that also prunes the entries corrected twice
optimize_storagePrunesTwice ==
    /\ word_patterns_cache' =
            [w \in {x \in DOMAIN word_patterns_cache : x \in dictionary} |->
                word_patterns_cache[w]]
    /\ user_corrections' =
            [k \in {x \in DOMAIN user_corrections : SumValues(user_corrections[x]) > 2} |->
                user_corrections[k]]
    /\ ret' = Ret("optimize_storage", <<>>, "ok", NoValue)
    /\ UNCHANGED <<dictionary, word_frequency>>

optimize_storage ==
    /\ word_patterns_cache' =
            [w \in {x \in DOMAIN word_patterns_cache : x \in dictionary} |->
                word_patterns_cache[w]]
    /\ user_corrections' =
            [k \in {x \in DOMAIN user_corrections : SumValues(user_corrections[x]) # 1} |->
                user_corrections[k]]
    /\ ret' = Ret("optimize_storage", <<>>, "ok", NoValue)
    /\ UNCHANGED <<dictionary, word_frequency>>

(***************************************************************************)
(* app.py: the /suggest route (the same steps as the loop of               *)
(* braille_suggest.py).  list(dictionary.dictionary) lists a Python set,   *)
(* whose order the program does not fix: candidates is any ordering.       *)
(***************************************************************************)
RECURSIVE CacheAfterGets(_, _, _)
CacheAfterGets(cache, candidates, i) ==
    IF i > Len(candidates) THEN cache
    ELSE CacheAfterGets(CacheAfterGet(cache, candidates[i]), candidates, i + 1)

\* [dictionary.get_word_patterns(word) for word in candidates]
CandidatePatterns(cache, candidates) ==
    [i \in 1..Len(candidates) |->
        CacheAfterGets(cache, candidates, i)[Lower(candidates[i])]]

\* the indices i, ascending, with distances[i] = min_distance
RECURSIVE BestIndices(_, _, _)
BestIndices(distances, min_distance, i) ==
    IF i > Len(distances) THEN <<>>
    ELSE (IF distances[i] = min_distance THEN <<i>> ELSE <<>>)
         \o BestIndices(distances, min_distance, i + 1)

SuggestValue(input_patterns, candidates, candidate_patterns) ==
    LET distances == batch_distances(input_patterns, candidate_patterns)
        min_distance == MinOfSeq(distances)
        best_indices == BestIndices(distances, min_distance, 1)
    IN  [suggestions |-> [k \in 1..Len(best_indices) |-> candidates[best_indices[k]]],
         distance |-> min_distance]

suggest(raw_input) ==
    LET user_input == Strip(raw_input)
    IN  IF ~validate_qwerty_input(user_input)
        THEN /\ ret' = Ret("suggest", <<raw_input>>, "invalid input", NoValue)
             /\ UNCHANGED <<dictionary, word_frequency, word_patterns_cache, user_corrections>>
        ELSE \E candidates \in Orderings(dictionary) :
                LET input_patterns == qwerty_to_braille_pattern(user_input)
                    candidate_patterns == CandidatePatterns(word_patterns_cache, candidates)
                IN  /\ word_patterns_cache' = CacheAfterGets(word_patterns_cache, candidates, 1)
                    /\ ret' = IF candidates = <<>>
                              THEN \* min([]) raises ValueError
                                   Ret("suggest", <<raw_input>>, "ValueError", NoValue)
                              ELSE Ret("suggest", <<raw_input>>, "ok",
                                       SuggestValue(input_patterns, candidates,
                                                    candidate_patterns))
                    /\ UNCHANGED <<dictionary, word_frequency, user_corrections>>

\* DictionaryManager.__init__
Init ==
    /\ dictionary = {}
    /\ word_frequency = EmptyDict
    /\ user_corrections = EmptyDict
    /\ word_patterns_cache = EmptyDict
    /\ ret = Ret("init", <<>>, "ok", NoValue)

(***************************************************************************)
(* Inputs of the calls, and the bounds that keep the counters finite.      *)
(***************************************************************************)
\* the largest frequency add_user_correction is let to raise
MaxFreq == 3

\* the largest occurrence count add_user_correction is let to raise
MaxCount == 2

ab == <<"a", "b">>

ac == <<"a", "c">>

af == <<"a", "f">>

abc == <<"a", "b", "c">>

\* raw words given to the calls: valid ones, one to case-fold and trim, one
\* with a digit, one empty
RawWords == {ab, <<" ", "A", "b">>, abc, <<"a", "1", "b">>, <<>>}

FreqValues == {-1, 0, 2}

OneFrequency == {NoFrequencies} \cup {Frequencies(<<v>>) : v \in FreqValues}

ProbeWords == {<<"A", "b">>, abc}

dw == <<"d", "w">>

dwo == <<"d", "w", "o">>

InputKeys == {dw}

Correction(key, mapping, counts) == [key |-> key, mapping |-> mapping, counts |-> counts]

Blob(readable, has_corrections, corrections, has_word_frequency, mapping, counts) ==
    [readable |-> readable, has_corrections |-> has_corrections,
     corrections |-> corrections, has_word_frequency |-> has_word_frequency,
     word_frequency |-> [mapping |-> mapping, counts |-> counts]]

UserDataBlobs ==
    { Blob(FALSE, FALSE, <<>>, FALSE, TRUE, EmptyDict),
      Blob(TRUE, TRUE, <<Correction(dw, TRUE, ab :> 2)>>, TRUE, TRUE, abc :> 2),
      Blob(TRUE, FALSE, <<>>, TRUE, TRUE, ab :> -1),
      Blob(TRUE, TRUE, <<Correction(dw, TRUE, abc :> 1), Correction(dwo, FALSE, EmptyDict)>>,
           TRUE, TRUE, ab :> 1),
      Blob(TRUE, TRUE, <<>>, TRUE, FALSE, EmptyDict) }

\* add_user_correction while the counters it raises are below their bounds
CorrectionInBounds(qwerty_input, raw) ==
    /\ DictGet(word_frequency, Normalize(raw), 0) < MaxFreq
    /\ DictGet(DictGet(user_corrections, qwerty_input, EmptyDict), Normalize(raw), 0) < MaxCount

AddWords == \E w \in RawWords, f \in OneFrequency : add_words(<<w>>, f)

RemoveWord == \E w \in RawWords : remove_word(w)

GetWordPatterns == \E w \in ProbeWords : get_word_patterns(w)

AddUserCorrection ==
    \E k \in InputKeys, w \in RawWords :
        CorrectionInBounds(k, w) /\ add_user_correction(k, w)

OptimizeStorage == optimize_storage

LoadUserData == \E b \in UserDataBlobs : load_user_data(b)

Next ==
    \/ AddWords
    \/ RemoveWord
    \/ GetWordPatterns
    \/ AddUserCorrection
    \/ OptimizeStorage
    \/ LoadUserData

Spec == Init /\ [][Next]_vars

(***************************************************************************)
(* Properties of the lexicon under Spec.                                   *)
(***************************************************************************)
\* occurrences(inputKey, word): 0 when no correction was recorded
Occurrences(corrections, key, word) == DictGet(DictGet(corrections, key, EmptyDict), word, 0)

\* C4: every word of the lexicon has a pattern-cache entry, and the entry is
\* the encoding of the word's characters.
C4_CacheCompleteAndFresh ==
    \A w \in dictionary :
        /\ w \in DOMAIN word_patterns_cache
        /\ word_patterns_cache[w] = text_to_braille_patterns(w)

\* a word added in folded form, another added and probed, then storage optimized
C4_Witness ==
    /\ ret.op = "optimize_storage"
    /\ dictionary = {ab}
    /\ DOMAIN word_patterns_cache = {ab}
    /\ abc \in DOMAIN word_frequency

\* C5: remove_word returns true exactly when the normalised word is in the
\* lexicon; it then leaves the lexicon, the frequencies and the cache without
\* the word and everything else as it was; otherwise it changes nothing; it
\* never fails.
C5_RemoveWord ==
    [][ret'.op = "remove_word" =>
        LET w == Normalize(ret'.args[1])
        IN  /\ ret'.status = "ok"
            /\ ret'.value = (w \in dictionary)
            /\ user_corrections' = user_corrections
            /\ IF w \in dictionary
               THEN /\ dictionary' = dictionary \ {w}
                    /\ DOMAIN word_frequency' = (DOMAIN word_frequency) \ {w}
                    /\ DOMAIN word_patterns_cache' = (DOMAIN word_patterns_cache) \ {w}
                    /\ \A x \in DOMAIN word_frequency' : word_frequency'[x] = word_frequency[x]
                    /\ \A x \in DOMAIN word_patterns_cache' :
                          word_patterns_cache'[x] = word_patterns_cache[x]
               ELSE /\ dictionary' = dictionary
                    /\ word_frequency' = word_frequency
                    /\ word_patterns_cache' = word_patterns_cache]_vars

\* a word given with a capital and a leading blank was removed, another stays
C5_Witness ==
    /\ ret.op = "remove_word"
    /\ ret.args = <<(<<" ", "A", "b">>)>>
    /\ ret.value = TRUE
    /\ dictionary = {abc}
    /\ abc \in DOMAIN word_patterns_cache
    /\ ab \notin DOMAIN word_frequency

\* C8 (as claimed): the frequency of every word of the lexicon is a
\* non-negative integer.
C8_FrequencyNonNegative ==
    \A w \in dictionary : w \in DOMAIN word_frequency /\ word_frequency[w] \in Nat

\* C9: add_user_correction of a lexicon word raises the word's frequency by 1
\* and the occurrence count of (inputKey, word) by 1 and changes nothing else;
\* of any other word it changes nothing.
C9_AddUserCorrection ==
    [][ret'.op = "add_user_correction" =>
        LET k == ret'.args[1]
            w == Normalize(ret'.args[2])
        IN  /\ dictionary' = dictionary
            /\ word_patterns_cache' = word_patterns_cache
            /\ IF w \in dictionary
               THEN /\ DOMAIN word_frequency' = DOMAIN word_frequency
                    /\ word_frequency'[w] = word_frequency[w] + 1
                    /\ \A x \in (DOMAIN word_frequency) \ {w} :
                          word_frequency'[x] = word_frequency[x]
                    /\ Occurrences(user_corrections', k, w)
                          = Occurrences(user_corrections, k, w) + 1
                    /\ DOMAIN user_corrections' = (DOMAIN user_corrections) \cup {k}
                    /\ \A k2 \in DOMAIN user_corrections' :
                          /\ DOMAIN user_corrections'[k2] =
                                (DOMAIN DictGet(user_corrections, k2, EmptyDict))
                                \cup (IF k2 = k THEN {w} ELSE {})
                          /\ \A w2 \in DOMAIN user_corrections'[k2] :
                                (k2 # k \/ w2 # w) =>
                                    user_corrections'[k2][w2] = user_corrections[k2][w2]
               ELSE /\ word_frequency' = word_frequency
                    /\ user_corrections' = user_corrections]_vars

\* a second correction of one word was recorded next to a correction of another
C9_Witness ==
    /\ ret.op = "add_user_correction"
    /\ Normalize(ret.args[2]) = ab
    /\ Occurrences(user_corrections, dw, ab) = 2
    /\ Occurrences(user_corrections, dw, abc) = 1
    /\ abc \in dictionary

(***************************************************************************)
(* SpecSuggest: a lexicon built and shrunk word by word, and suggest       *)
(* requests against it.                                                    *)
(***************************************************************************)
help == <<"h", "e", "l", "p">>

hello == <<"h", "e", "l", "l", "o">>

SuggestWords == {ab, ac, af, help, hello}

\* raw requests: empty; the chords of "ab"; the same with capitals, blanks and
\* keys out of order; the chords of "af"; "aa"; "a"; a chord with a key pressed
\* twice; the chords of "help"; a key that is no Braille key
SuggestInputs ==
    { <<>>,
      <<"d", " ", "d", "w">>,
      <<" ", "D", " ", " ", "w", "d", " ">>,
      <<"d", " ", "d", "w", "k">>,
      <<"d", " ", "d">>,
      <<"d">>,
      <<"d", "d", " ", "d", "w">>,
      <<"d", "w", "o", " ", "d", "o", " ", "d", "w", "q", " ", "d", "w", "q", "k">>,
      <<"d", "x">> }

SuggestAddWords == \E w \in SuggestWords : add_words(<<w>>, NoFrequencies)

SuggestRemoveWord == \E w \in SuggestWords : remove_word(w)

Suggest == \E i \in SuggestInputs : suggest(i)

NextSuggest ==
    \/ SuggestAddWords
    \/ SuggestRemoveWord
    \/ Suggest

SpecSuggest == Init /\ [][NextSuggest]_vars

\* the patterns suggest matched against: those of the request ret records
RequestPatterns == qwerty_to_braille_pattern(Strip(ret.args[1]))

\* WordMatcher.distance of the request to a word's encoding
RequestDistance(w) == word_distance(RequestPatterns, text_to_braille_patterns(w))

\* the words of the lexicon nearest to the request
NearestWords ==
    {w \in dictionary : \A x \in dictionary : RequestDistance(w) <= RequestDistance(x)}

\* C1: on a non-empty lexicon suggest answers, its suggestions are exactly
\* the lexicon words at the least distance from the request, each once, and
\* the distance it reports is that least distance.
C1_SuggestReturnsNearest ==
    (ret.op = "suggest" /\ dictionary # {} /\ validate_qwerty_input(Strip(ret.args[1]))) =>
        /\ ret.status = "ok"
        /\ Range(ret.value.suggestions) = NearestWords
        /\ Len(ret.value.suggestions) = Cardinality(NearestWords)
        /\ \A w \in NearestWords : ret.value.distance = RequestDistance(w)

\* "aa" against ab, ac, af, help: ab and ac tie at 1.0, af and help are left out
C1_Witness ==
    /\ ret.op = "suggest"
    /\ ret.status = "ok"
    /\ ret.args = <<(<<"d", " ", "d">>)>>
    /\ dictionary = {ab, ac, af, help}
    /\ Range(ret.value.suggestions) = {ab, ac}
    /\ ret.value.distance = 2

\* C2 (as claimed): suggest on an empty lexicon ends with the EmptyLexicon
\* error.
C2_EmptyLexiconError ==
    (ret.op = "suggest" /\ dictionary = {} /\ validate_qwerty_input(Strip(ret.args[1]))) =>
        ret.status = "EmptyLexicon"

\* C3: when the request is exactly the encoding of a lexicon word, suggest
\* reports distance 0 with that word as the only suggestion, and every other
\* lexicon word is at a distance above 0.
C3_ExactMatchIsSole ==
    (ret.op = "suggest" /\ ret.status = "ok") =>
        \A w \in dictionary :
            RequestPatterns = text_to_braille_patterns(w) =>
                /\ ret.value.distance = 0
                /\ ret.value.suggestions = <<w>>
                /\ \A x \in dictionary \ {w} : RequestDistance(x) > 0

\* the chords of "af" against a lexicon holding ab (same length, one dot
\* fewer), ac, help and hello
C3_Witness ==
    /\ ret.op = "suggest"
    /\ ret.status = "ok"
    /\ RequestPatterns = text_to_braille_patterns(af)
    /\ dictionary = {ab, ac, af, help, hello}
    /\ ret.value.suggestions = <<af>>

(***************************************************************************)
(* SpecAdd: add_words called with lists of words, with and without a list  *)
(* of frequencies, and remove_word.                                        *)
(***************************************************************************)
\* the longest list of words given to one call of add_words
MaxWords == 2

a1b == <<"a", "1", "b">>

AddRawWords == {ab, <<" ", "A", "b">>, a1b}

\* words that normalise to nothing, and one of 51 characters
UnfitWords == {<<>>, <<" ", "\t">>, Repeat("a", MAX_WORD_LENGTH + 1)}

\* no list; an empty list; a list shorter than the words; one with a zero
FrequencyLists == {NoFrequencies, Frequencies(<<>>), Frequencies(<<5>>), Frequencies(<<0, 7>>)}

\* the lists of at most MaxWords raw words
WordLists == SeqsUpTo(AddRawWords, MaxWords)

\* an unfit word followed by a fit one, and two lists with a second fit word
UnfitWordLists == {<<u, ab>> : u \in UnfitWords} \cup {<<a1b, ac>>, <<ac, ab>>}

AddWordLists == \E ws \in WordLists, f \in FrequencyLists : add_words(ws, f)

AddUnfitWord == \E ws \in UnfitWordLists, f \in FrequencyLists : add_words(ws, f)

AddRemoveWord == \E w \in {ab, ac} : remove_word(w)

NextAdd ==
    \/ AddWordLists
    \/ AddUnfitWord
    \/ AddRemoveWord

SpecAdd == Init /\ [][NextAdd]_vars

\* a normalised word add_words must reject
Unfit(w) ==
    \/ w = <<>>
    \/ Len(w) > 50
    \/ \E c \in Range(w) : c \notin DOMAIN char_to_braille

\* the words of the call, each normalised
Normalized(ws) == [i \in 1..Len(ws) |-> Normalize(ws[i])]

\* the positions at which the normalised words nws hold w
Positions(nws, w) == {i \in 1..Len(nws) : nws[i] = w}

\* the fit ones among the normalised words nws
FitWords(nws) == {w \in Range(nws) : ~Unfit(w)}

\* C6: add_words leaves the lexicon, the frequencies and the cache as they
\* were for every word of the call that normalises to an unfit word, and adds
\* the fit words of the same call: the lexicon grows by exactly the fit words.
C6_UnfitWordsRejected ==
    [][ret'.op = "add_words" =>
        LET nws == Normalized(ret'.args[1])
            fit == FitWords(nws)
        IN  /\ \A w \in Range(nws) \ fit :
                  /\ w \notin dictionary'
                  /\ (w \in DOMAIN word_frequency') = (w \in DOMAIN word_frequency)
                  /\ w \in DOMAIN word_frequency => word_frequency'[w] = word_frequency[w]
                  /\ (w \in DOMAIN word_patterns_cache') = (w \in DOMAIN word_patterns_cache)
                  /\ w \in DOMAIN word_patterns_cache =>
                        word_patterns_cache'[w] = word_patterns_cache[w]
            /\ dictionary' = dictionary \cup fit
            /\ DOMAIN word_frequency' = (DOMAIN word_frequency) \cup fit
            /\ DOMAIN word_patterns_cache' = (DOMAIN word_patterns_cache) \cup fit]_vars

\* "a1b" was given before "ac": only "ac" is in the lexicon
C6_Witness ==
    /\ ret.op = "add_words"
    /\ ret.args[1] = <<a1b, ac>>
    /\ dictionary = {ac}
    /\ DOMAIN word_frequency = {ac}
    /\ DOMAIN word_patterns_cache = {ac}

\* an explicit frequency exists at position i (counted from 1) of the words
ExplicitAt(f, i) == f.given /\ i <= Len(f.list)

\* C7 (as claimed): every accepted word with no explicit frequency at its
\* position ends at max(1, its frequency before the call), and every accepted
\* word with one ends at exactly that frequency.
C7_FrequencyPerPosition ==
    [][ret'.op = "add_words" =>
        LET nws == Normalized(ret'.args[1])
            f == ret'.args[2]
        IN  \A i \in 1..Len(nws) :
                ~Unfit(nws[i]) =>
                    word_frequency'[nws[i]] =
                        IF ExplicitAt(f, i) THEN f.list[i]
                        ELSE Max2(1, DictGet(word_frequency, nws[i], 0))]_vars

\* the largest element of a non-empty set of integers
MaxOf(S) == CHOOSE m \in S : \A x \in S : x <= m

\* C7 (amended): the last position of an accepted word decides: with an
\* explicit frequency there, the word ends at exactly it; without one, the
\* word ends at max(1, g), g being the explicit frequency at the word's
\* latest position that has one, or the frequency before the call if none has.
C7_FrequencyByLastPosition ==
    [][ret'.op = "add_words" =>
        LET nws == Normalized(ret'.args[1])
            f == ret'.args[2]
        IN  \A w \in FitWords(nws) :
                LET last == MaxOf(Positions(nws, w))
                    explicit == {i \in Positions(nws, w) : ExplicitAt(f, i)}
                IN  word_frequency'[w] =
                        IF ExplicitAt(f, last) THEN f.list[last]
                        ELSE IF explicit # {} THEN Max2(1, f.list[MaxOf(explicit)])
                        ELSE Max2(1, DictGet(word_frequency, w, 0))]_vars

\* "ac" and "ab" were given with one frequency, 5, while "ab" stood at 7: "ac"
\* took the 5 and "ab", past the end of the list, kept its 7
C7_Witness ==
    /\ ret.op = "add_words"
    /\ ret.args = <<(<<ac, ab>>), Frequencies(<<5>>)>>
    /\ word_frequency[ac] = 5
    /\ word_frequency[ab] = 7

(***************************************************************************)
(* SpecBoost: one word added with and without a frequency near the cap of  *)
(* the frequency boost, corrections recorded under two input keys, and the *)
(* two boosts read.  Boosts are in hundredths.                             *)
(***************************************************************************)
\* the largest frequency add_user_correction is let to raise here
MaxBoostFreq == 52

\* the largest occurrence count add_user_correction is let to raise here
MaxBoostCount == 5

BoostFrequencies == {NoFrequencies, Frequencies(<<48>>)}

BoostKeys == {dw, dwo}

BoostAddWords == \E f \in BoostFrequencies : add_words(<<ab>>, f)

BoostRemoveWord == remove_word(ab)

BoostAddUserCorrection ==
    \E k \in BoostKeys :
        /\ DictGet(word_frequency, ab, 0) < MaxBoostFreq
        /\ Occurrences(user_corrections, k, ab) < MaxBoostCount
        /\ add_user_correction(k, ab)

GetFrequencyBoost == \E w \in {ab, abc} : get_frequency_boost(w)

GetPersonalizedBoost == \E w \in {ab, abc}, k \in BoostKeys : get_personalized_boost(w, k)

NextBoost ==
    \/ BoostAddWords
    \/ BoostRemoveWord
    \/ BoostAddUserCorrection
    \/ GetFrequencyBoost
    \/ GetPersonalizedBoost

SpecBoost == Init /\ [][NextBoost]_vars

\* what get_frequency_boost must return: frequency/100 (that many hundredths)
\* below 0.5, and 0.5 from a frequency of 50 on
C10_FrequencyBoostValue ==
    ret.op = "get_frequency_boost" =>
        LET frequency == DictGet(word_frequency, ret.args[1], 0)
        IN  /\ ret.value <= 50
            /\ frequency < 50 => ret.value = frequency
            /\ frequency >= 50 => ret.value = 50

\* what get_personalized_boost must return: 0.05 a correction up to 4, 0.2 from 4 on
C10_PersonalizedBoostValue ==
    ret.op = "get_personalized_boost" =>
        LET n == Occurrences(user_corrections, ret.args[2], ret.args[1])
        IN  /\ ret.value <= 20
            /\ n < 4 => ret.value = n * 5 /\ ret.value < 20
            /\ n >= 4 => ret.value = 20

\* no recorded correction lowers a boost
C10_BoostsNeverFall ==
    ret'.op = "add_user_correction" =>
        /\ FrequencyBoost(word_frequency', ab) >= FrequencyBoost(word_frequency, ab)
        /\ \A k \in BoostKeys :
              PersonalizedBoost(user_corrections', ab, k)
                  >= PersonalizedBoost(user_corrections, ab, k)

\* C10: get_frequency_boost is min(0.5, frequency/100) and
\* get_personalized_boost is min(0.2, occurrences x 0.05); neither exceeds its
\* cap nor falls when the frequency or the count grows; the personalized boost
\* is at its cap from the 4th correction of the pair on.
C10_Boosts ==
    /\ [](C10_FrequencyBoostValue /\ C10_PersonalizedBoostValue)
    /\ [][C10_BoostsNeverFall]_vars

\* the personalized boost read after the 5th correction of a pair, with the
\* frequency past 50
C10_Witness ==
    /\ ret.op = "get_personalized_boost"
    /\ ret.args = <<ab, dw>>
    /\ Occurrences(user_corrections, dw, ab) = 5
    /\ ret.value = 20
    /\ word_frequency[ab] > 50
    /\ FrequencyBoost(word_frequency, ab) = 50

(***************************************************************************)
(* SpecCompact: two words added, probed and removed, corrections recorded  *)
(* under two input keys, and the storage optimized.                        *)
(***************************************************************************)
CompactWords == {ab, abc}

CompactAddWords == \E w \in CompactWords : add_words(<<w>>, NoFrequencies)

CompactRemoveWord == \E w \in CompactWords : remove_word(w)

CompactGetWordPatterns == \E w \in CompactWords : get_word_patterns(w)

CompactAddUserCorrection ==
    \E k \in BoostKeys, w \in CompactWords :
        CorrectionInBounds(k, w) /\ add_user_correction(k, w)

CompactOptimizeStorage == optimize_storage

NextCompact ==
    \/ CompactAddWords
    \/ CompactRemoveWord
    \/ CompactGetWordPatterns
    \/ CompactAddUserCorrection
    \/ CompactOptimizeStorage

SpecCompact == Init /\ [][NextCompact]_vars

\* what one call of optimize_storage must do
C11_OneCall ==
    ret'.op = "optimize_storage" =>
        /\ \A k \in DOMAIN user_corrections' : SumValues(user_corrections'[k]) # 1
        /\ \A k \in DOMAIN user_corrections :
              SumValues(user_corrections[k]) >= 2 =>
                  /\ k \in DOMAIN user_corrections'
                  /\ user_corrections'[k] = user_corrections[k]
        /\ \A w \in DOMAIN word_patterns_cache' : w \in dictionary'
        /\ dictionary' = dictionary
        /\ word_frequency' = word_frequency

\* a call of optimize_storage right after one could change nothing
C11_SecondCallChangesNothing ==
    ret.op = "optimize_storage" => ~ENABLED (optimize_storage /\ vars' # vars)

\* C11: after optimize_storage no correction entry with a total count of 1
\* remains, every entry with a total of 2 or more is kept with its counts, the
\* cache holds no word outside the lexicon, the lexicon and the frequencies are
\* as before; a second call changes nothing.
C11_OptimizeStorage ==
    /\ [][C11_OneCall]_vars
    /\ []C11_SecondCallChangesNothing

\* storage optimized with one entry of two words kept, after a one-off entry
\* of a second correction of "ab" was pruned and "abc" had left the lexicon
C11_Witness ==
    /\ ret.op = "optimize_storage"
    /\ DOMAIN user_corrections = {dw}
    /\ Occurrences(user_corrections, dw, ab) = 1
    /\ Occurrences(user_corrections, dw, abc) = 1
    /\ DictGet(word_frequency, ab, 0) = 3
    /\ dictionary = {ab}
    /\ DOMAIN word_patterns_cache = {ab}

(***************************************************************************)
(* SpecLoad: dictionary files of the three formats and user data loaded    *)
(* into a lexicon that add_words and remove_word also change.              *)
(***************************************************************************)
File(readable, data) == [readable |-> readable, data |-> data]

\* one item of a JSON list, or one key of a JSON object
Item(is_str, text) == [is_str |-> is_str, text |-> text]

JsonData(kind, items, values) == [kind |-> kind, items |-> items, values |-> values]

\* a file that cannot be read; and "ab", an empty line, " Abc "
TextFiles ==
    { File(FALSE, <<>>),
      File(TRUE, << <<"a", "b", "\n">>, <<"\n">>, <<" ", "A", "b", "c", " ", "\n">> >>) }

\* a file that does not parse; ["abc"]; ["ab", 5, "ac"]; {"ab": 4, "a1b": 2}; 7
JsonFiles ==
    { File(FALSE, JsonData("other", <<>>, <<>>)),
      File(TRUE, JsonData("list", <<Item(TRUE, abc)>>, <<>>)),
      File(TRUE, JsonData("list", <<Item(TRUE, ab), Item(FALSE, <<>>), Item(TRUE, ac)>>, <<>>)),
      File(TRUE, JsonData("dict", <<Item(TRUE, ab), Item(TRUE, a1b)>>, <<4, 2>>)),
      File(TRUE, JsonData("other", <<>>, <<>>)) }

\* a file that cannot be read; rows ab,12 / (empty) / ac,0; rows ab,3 / abc,x
CsvFiles ==
    { File(FALSE, <<>>),
      File(TRUE, << <<ab, <<"1", "2">> >>, <<>>, <<ac, <<"0">> >> >>),
      File(TRUE, << <<ab, <<"3">> >>, <<abc, <<"x">> >> >>) }

LoadWords == {ab, abc}

LoadAddWords == \E w \in LoadWords : add_words(<<w>>, NoFrequencies)

LoadRemoveWord == \E w \in LoadWords \cup {ac} : remove_word(w)

LoadTextFile == \E f \in TextFiles : load_dictionary_from_file("text", f)

LoadJsonFile == \E f \in JsonFiles : load_dictionary_from_file("json", f)

LoadCsvFile == \E f \in CsvFiles : load_dictionary_from_file("csv", f)

LoadUserDataFile == \E b \in UserDataBlobs : load_user_data(b)

NextLoad ==
    \/ LoadAddWords
    \/ LoadRemoveWord
    \/ LoadTextFile
    \/ LoadJsonFile
    \/ LoadCsvFile
    \/ LoadUserDataFile

SpecLoad == Init /\ [][NextLoad]_vars

\* C12 (as claimed): a load that fails ends with the error reported, not
\* raised, and with the lexicon, the frequencies, the cache and the
\* corrections exactly as they were before the call.
C12_FailedLoadChangesNothing ==
    [][ret'.op \in {"load_dictionary_from_file", "load_user_data"} =>
        /\ ret'.status \in {"ok", "error printed"}
        /\ ret'.status = "error printed" =>
              /\ dictionary' = dictionary
              /\ word_frequency' = word_frequency
              /\ word_patterns_cache' = word_patterns_cache
              /\ user_corrections' = user_corrections]_vars

(***************************************************************************)
(* SpecRoundTrip: a lexicon built and shrunk by add_words and remove_word, *)
(* saved as text and loaded into a new lexicon.                            *)
(***************************************************************************)
a_b == <<"a", " ", "b">>

\* words to fold and trim, one with a blank inside, one longer
RoundTripWords == {ab, <<" ", "A", "b", " ">>, a_b, abc}

RoundTripAddWords ==
    \E w \in RoundTripWords, f \in {NoFrequencies, Frequencies(<<2>>)} : add_words(<<w>>, f)

RoundTripRemoveWord == \E w \in RoundTripWords : remove_word(w)

SaveAndReload == save_and_reload

NextRoundTrip ==
    \/ RoundTripAddWords
    \/ RoundTripRemoveWord
    \/ SaveAndReload

SpecRoundTrip == Init /\ [][NextRoundTrip]_vars

\* C13: the lexicon loaded from the text file saved from a lexicon holds
\* exactly the words of the saved one.
C13_TextRoundTrip ==
    [][ret'.op = "save_and_reload" => dictionary' = dictionary]_vars

\* three words, one with a blank inside, came back from the file, their
\* frequencies set anew
C13_Witness ==
    /\ ret.op = "save_and_reload"
    /\ dictionary = {ab, a_b, abc}
    /\ \A w \in dictionary : DictGet(word_frequency, w, 0) = 1

(***************************************************************************)
(* SpecRead: suggest requests against a lexicon that every operation of    *)
(* the DictionaryManager changes between them.                             *)
(***************************************************************************)
\* the chords of "ab"; the chord of "a"; a key that is no Braille key
ReadInputs == { <<"d", " ", "d", "w">>, <<"d">>, <<"d", "x">> }

ReadAddWords == \E w \in {ab, <<"A", "b", "c">>} : add_words(<<w>>, NoFrequencies)

ReadRemoveWord == \E w \in {ab, abc} : remove_word(w)

\* probes of a lexicon word in capitals and of a word never added
ReadGetWordPatterns == \E w \in {<<"A", "b">>, ac} : get_word_patterns(w)

ReadAddUserCorrection == CorrectionInBounds(dw, ab) /\ add_user_correction(dw, ab)

ReadOptimizeStorage == optimize_storage

ReadLoadUserData == \E b \in UserDataBlobs : load_user_data(b)

ReadLoadJsonFile == \E f \in JsonFiles : load_dictionary_from_file("json", f)

ReadSaveAndReload == save_and_reload

ReadSuggest == \E i \in ReadInputs : suggest(i)

NextRead ==
    \/ ReadAddWords
    \/ ReadRemoveWord
    \/ ReadGetWordPatterns
    \/ ReadAddUserCorrection
    \/ ReadOptimizeStorage
    \/ ReadLoadUserData
    \/ ReadLoadJsonFile
    \/ ReadSaveAndReload
    \/ ReadSuggest

SpecRead == Init /\ [][NextRead]_vars

\* C14: suggest leaves the lexicon, the frequencies, the pattern cache and
\* the corrections as they were, so a request repeated after another request
\* ends the same way, with the same words at the same distance.
C14_SuggestIsPureRead ==
    [][ret'.op = "suggest" =>
        /\ dictionary' = dictionary
        /\ word_frequency' = word_frequency
        /\ word_patterns_cache' = word_patterns_cache
        /\ user_corrections' = user_corrections
        /\ (ret.op = "suggest" /\ ret.args = ret'.args) =>
              /\ ret'.status = ret.status
              /\ ret.status = "ok" =>
                    /\ Range(ret'.value.suggestions) = Range(ret.value.suggestions)
                    /\ Len(ret'.value.suggestions) = Len(ret.value.suggestions)
                    /\ ret'.value.distance = ret.value.distance]_vars

\* a request answered while the cache also holds a probed word that is not
\* in the lexicon and a correction is on record
C14_Witness ==
    /\ ret.op = "suggest"
    /\ ret.status = "ok"
    /\ dictionary = {ab, abc}
    /\ DOMAIN word_patterns_cache = {ab, abc, ac}
    /\ Range(ret.value.suggestions) = {ab}
    /\ DOMAIN user_corrections = {dw}

(***************************************************************************)
(* The order of the suggestions, under SpecSuggest.                        *)
(***************************************************************************)
\* C15 (as claimed): the words suggest returns are in alphabetical order.
C15_TiesAlphabetical ==
    (ret.op = "suggest" /\ ret.status = "ok") =>
        ret.value.suggestions = SortedWords(Range(ret.value.suggestions))

(***************************************************************************)
(* SpecDistance: the routines of the DistanceCalculator applied to symbol  *)
(* sets and to sequences of them, each call on arguments drawn beforehand. *)
(* A symbol set is held as the tuple of its dots in increasing order, as   *)
(* char_to_braille holds it.                                               *)
(***************************************************************************)
\* the longest sequence of symbol sets drawn for the sequence routines
MaxLen == 3

\* the tuple of the elements of a set of integers, increasing
RECURSIVE TupleOf(_)
TupleOf(S) ==
    IF S = {} THEN <<>>
    ELSE LET least == CHOOSE x \in S : \A y \in S : x <= y
         IN  <<least>> \o TupleOf(S \ {least})

\* every symbol set over the dots 1..6
SymbolSets == {TupleOf(S) : S \in SUBSET (1..6)}

\* symbol sets one dot apart, and one five and six dots away from them
SequenceSymbols == {<<1>>, <<1, 2>>, <<3, 4, 5, 6>>}

PatternSequences == SeqsUpTo(SequenceSymbols, MaxLen)

\* pairs the bounded sequences do not hold: "ab" against "af", nothing against
\* "abc", "a" against "hello", "hello" against "ab"
LongerPairs ==
    { <<text_to_braille_patterns(ab), text_to_braille_patterns(af)>>,
      <<(<<>>), text_to_braille_patterns(abc)>>,
      <<(<< <<1>> >>), text_to_braille_patterns(hello)>>,
      <<text_to_braille_patterns(hello), text_to_braille_patterns(ab)>> }

SequencePairs == (PatternSequences \X PatternSequences) \cup LongerPairs

\* the arguments of one call, drawn before the call is made
InitDistance ==
    /\ dictionary = {}
    /\ word_frequency = EmptyDict
    /\ user_corrections = EmptyDict
    /\ word_patterns_cache = EmptyDict
    /\ ret \in {Ret("symbol sets", <<a, b>>, "drawn", NoValue) : a \in SymbolSets, b \in SymbolSets}
               \cup {Ret("sequences", p, "drawn", NoValue) : p \in SequencePairs}

CallPatternDistance ==
    /\ ret.op = "symbol sets"
    /\ ret' = Ret("pattern_distance", ret.args, "ok", pattern_distance(ret.args[1], ret.args[2]))
    /\ UNCHANGED <<dictionary, word_frequency, word_patterns_cache, user_corrections>>

CallHammingDistance ==
    /\ ret.op = "sequences"
    /\ ret' = Ret("hamming_distance_patterns", ret.args, "ok",
                  hamming_distance_patterns(ret.args[1], ret.args[2]))
    /\ UNCHANGED <<dictionary, word_frequency, word_patterns_cache, user_corrections>>

CallLevenshteinDistance ==
    /\ ret.op = "sequences"
    /\ ret' = Ret("levenshtein_distance_patterns", ret.args, "ok",
                  levenshtein_distance_patterns(ret.args[1], ret.args[2]))
    /\ UNCHANGED <<dictionary, word_frequency, word_patterns_cache, user_corrections>>

CallWordDistance ==
    /\ ret.op = "sequences"
    /\ ret' = Ret("word_distance", ret.args, "ok", word_distance(ret.args[1], ret.args[2]))
    /\ UNCHANGED <<dictionary, word_frequency, word_patterns_cache, user_corrections>>

NextDistance ==
    \/ CallPatternDistance
    \/ CallHammingDistance
    \/ CallLevenshteinDistance
    \/ CallWordDistance

SpecDistance == InitDistance /\ [][NextDistance]_vars

\* the number of dots in exactly one of two symbol sets
DotsApart(a, b) == Cardinality(Range(b) \ Range(a)) + Cardinality(Range(a) \ Range(b))

\* C16: pattern_distance(a, b) is the number of dots of b not in a plus the
\* number of dots of a not in b (1.0 is 2 half units); it is the same with a
\* and b exchanged, 0 for a against itself, and 0 only when a = b.
C16_PatternDistance ==
    ret.op = "pattern_distance" =>
        LET a == ret.args[1]
            b == ret.args[2]
        IN  /\ ret.value = 2 * DotsApart(a, b)
            /\ ret.value = pattern_distance(b, a)
            /\ pattern_distance(a, a) = 0
            /\ (ret.value = 0) <=> (a = b)

\* b against f: one dot missing; and the same call the other way round
C16_Witness ==
    /\ ret.op = "pattern_distance"
    /\ ret.args = <<(<<1, 2>>), (<<1, 2, 4>>)>>
    /\ ret.value = 2
    /\ pattern_distance(<<1, 2, 4>>, <<1, 2>>) = 2

\* the sum over the aligned positions of two sequences of equal length
RECURSIVE AlignedSum(_, _)
AlignedSum(s1, s2) ==
    IF s1 = <<>> THEN 0
    ELSE 2 * DotsApart(Head(s1), Head(s2)) + AlignedSum(Tail(s1), Tail(s2))

\* |len1 - len2|
LengthsApart(s1, s2) == IF Len(s1) >= Len(s2) THEN Len(s1) - Len(s2) ELSE Len(s2) - Len(s1)

AlignCost(a, b) == IF Range(a) = Range(b) THEN 0 ELSE 2 * DotsApart(a, b)

\* the least total cost of the edit scripts that turn s1 into s2: the head of
\* s1 is deleted (2.0), or the head of s2 inserted (2.0), or the two aligned
RECURSIVE MinEditCost(_, _)
MinEditCost(s1, s2) ==
    IF s1 = <<>> THEN 4 * Len(s2)
    ELSE IF s2 = <<>> THEN 4 * Len(s1)
    ELSE Min2(MinEditCost(Tail(s1), s2) + 4,
              Min2(MinEditCost(s1, Tail(s2)) + 4,
                   MinEditCost(Tail(s1), Tail(s2)) + AlignCost(Head(s1), Head(s2))))

\* C18: levenshtein_distance_patterns(s1, s2) is the least total cost of the
\* edit scripts from s1 to s2, a deletion and an insertion at 2.0 each, equal
\* symbol sets aligned at 0 and different ones at their pattern_distance;
\* against the empty sequence it is the length x 2.0.
C18_LevenshteinIsMinimum ==
    ret.op = "levenshtein_distance_patterns" =>
        LET s1 == ret.args[1]
            s2 == ret.args[2]
        IN  /\ ret.value = MinEditCost(s1, s2)
            /\ s2 = <<>> => ret.value = 4 * Len(s1)
            /\ s1 = <<>> => ret.value = 4 * Len(s2)

\* {3,4,5,6} is cheaper deleted and {1} inserted (4.0) than substituted (5.0),
\* and the two {1,2} are aligned at no cost
C18_Witness ==
    /\ ret.op = "levenshtein_distance_patterns"
    /\ ret.args = <<(<< <<1, 2>>, <<3, 4, 5, 6>> >>), (<< <<1>>, <<1, 2>> >>)>>
    /\ ret.value = 8
    /\ pattern_distance(<<3, 4, 5, 6>>, <<1>>) = 10

(***************************************************************************)
(* The patterns of the request, under SpecSuggest.                         *)
(***************************************************************************)
\* a tuple of dots in 1..6, strictly increasing
Canonical(pattern) ==
    \A i \in 1..Len(pattern) :
        /\ pattern[i] \in 1..6
        /\ i < Len(pattern) => pattern[i] < pattern[i + 1]

\* C19 (as claimed): every pattern qwerty_to_braille_pattern makes of an
\* accepted request is a strictly increasing tuple of dots in 1..6, so it
\* equals a cached pattern exactly when pattern_distance between them is 0.
C19_RequestPatternsCanonical ==
    (ret.op = "suggest" /\ ret.status # "invalid input") =>
        \A i \in 1..Len(RequestPatterns) :
            /\ Canonical(RequestPatterns[i])
            /\ \A w \in DOMAIN word_patterns_cache :
                  \A j \in 1..Len(word_patterns_cache[w]) :
                      (RequestPatterns[i] = word_patterns_cache[w][j])
                          <=> (pattern_distance(RequestPatterns[i],
                                                word_patterns_cache[w][j]) = 0)

====
